---- MODULE Spec2Model ----
(***************************************************************************)
(* Model of the figma_archiver image pipeline (src/figma_archiver/         *)
(* images.py): main, the Manifest Workers (process_files), the Download    *)
(* Queue and its coordinator (image_queue_handler) and the per-wave        *)
(* ThreadPoolExecutor that runs download_image.                            *)
(***************************************************************************)
EXTENDS Integers, Sequences, FiniteSets, TLC

\* ------------------------------------------------------------------------
\* Bounds of the model
MaxFiles   == 2      \* manifests matched by the glob
MaxConc    == 2      \* --concurrency
MaxBatch   == 2      \* image_queue_handler(batch=...)
timeout    == 2      \* image_queue_handler(timeout=...), in poll intervals
MaxChunks  == 2      \* batches of one fetch_node_images call
MaxIds     == 3      \* ids handed to chunk
MaxLen     == 6      \* chunk(max_len=...), in characters
MaxCanvas  == 2      \* canvases of a document
MaxHeight  == 3      \* levels of elements below a canvas
MaxZip     == 4      \* pairs handed to chunked_zips
MaxShards  == 4      \* chunked_zips(n=...)
MaxTasks   == 2      \* download_image calls of one caller
MaxFail    == 5      \* GET attempts in a row that fail
MaxWaveChunks == 11  \* batches of a fetch_node_images call of several waves

\* ------------------------------------------------------------------------
\* Program constants
max_retry == 3
delay_between_429 == 10
max_concurrent_requests == 10
delay_between_batches == 1
no_fills  == FALSE          \* --no-fills, default
scale     == "1"            \* --scale, default
format    == "png"          \* --format, default
None      == "None"
EOD       == "EOD"
URL       == "url"
URL404    == "url404"       \* a url whose GET fails
Sentinel  == [url |-> EOD, path |-> <<0, EOD, <<EOD>>>>]

\* ------------------------------------------------------------------------
\* Manifests on disk, together with the state of their output directory and
\* the answers of the remote API for them.
\*   json      what json.load / the key lookups find in the file
\*   thumb     thumbnail.png is already present
\*   imagesDir names listed in <key>/images
\*   fills     fill hashes returned by fetch_file_images
\*   nodes     the ids get_node_ids returns
\*   bakesDir  node ids whose bake is already listed in <key>/bakes
\*   k429      number of consecutive 429 answers of the images endpoint
\*   nulls     node ids the API renders to a null url
\*   dead      names (thumbnail, hash, node id) whose url fails to download
Fresh       == [json |-> "valid", thumb |-> FALSE, imagesDir |-> {}, fills |-> <<"h1">>,
                nodes |-> <<"1:2">>, bakesDir |-> {"1:2"}, k429 |-> 0, nulls |-> {}, dead |-> {}]
NullBake    == [json |-> "valid", thumb |-> FALSE, imagesDir |-> {"h1"}, fills |-> <<"h1">>,
                nodes |-> <<"1:2", "1:3">>, bakesDir |-> {"1:3"}, k429 |-> 1, nulls |-> {"1:2"},
                dead |-> {"thumbnail"}]
Resumed     == [json |-> "valid", thumb |-> TRUE, imagesDir |-> {"h1"}, fills |-> <<"h1">>,
                nodes |-> <<"1:2", "1:3">>, bakesDir |-> {"1:2", "1:3"}, k429 |-> 0, nulls |-> {},
                dead |-> {}]
BadJson     == [json |-> "invalid", thumb |-> FALSE, imagesDir |-> {}, fills |-> <<>>,
                nodes |-> <<>>, bakesDir |-> {}, k429 |-> 0, nulls |-> {}, dead |-> {}]
NoDocument  == [json |-> "no_document", thumb |-> FALSE, imagesDir |-> {}, fills |-> <<>>,
                nodes |-> <<"1:2">>, bakesDir |-> {}, k429 |-> 0, nulls |-> {}, dead |-> {}]
RateLimited == [json |-> "valid", thumb |-> TRUE, imagesDir |-> {"h1"}, fills |-> <<"h1">>,
                nodes |-> <<"1:2">>, bakesDir |-> {}, k429 |-> 4, nulls |-> {}, dead |-> {}]
Manifests   == {Fresh, NullBake, Resumed, BadJson, NoDocument, RateLimited}

SeqsUpTo(S, n) == UNION {[1..k -> S] : k \in 0..n}

VARIABLES
    \* inputs of the run
    json_files,        \* main: the (shuffled) manifests, by position = file key
    concurrency,       \* main: --concurrency
    batch,             \* image_queue_handler: wave size
    files,             \* process_files: the shard handed to each worker thread
    \* shared
    img_queue,         \* queue.Queue of Download Tasks / the sentinel
    now,               \* time.time(), in poll intervals since the wave began
    errExists,         \* err.log exists
    errLog,            \* content of err.log, one entry per line
    \* main
    mainpc,
    \* Manifest Workers
    wpc, widx, wput, wraised,
    dirs,              \* directories made by mkdir: <<file key, directory>>
    \* coordinator
    cpc, items_to_process, batch_start_time, timeout_time, url, total, stopped,
    \* Transfer Executor pool
    waveNo, pending, running,
    \* history
    enqueued,          \* tasks put on the queue by the workers
    handed,            \* tasks download_image was called on by the pool
    direct,            \* paths download_image was called on by a worker
    written,           \* destination files written by a transfer
    logCalls,          \* per file key, the entries log_error appended for it
    eodPut             \* number of sentinels main has put on the queue

\* ------------------------------------------------------------------------
\* State of one call of fetch_node_images taken on its own
VARIABLES
    ids_chunks,        \* list(chunk(ids))
    k429,              \* per batch: its first k429 calls are answered 429
    answer,            \* what the endpoint answers after the 429s
    retry_after,       \* the retry-after header of a 429 answer
    params_ids,        \* params["ids"], one dict for all the batch threads
    fpc,               \* per batch: position of its fetch_images_chunk thread
    fretry,            \* per batch: fetch_images_chunk's retry argument
    fcalls,            \* per batch: requests.get calls made so far
    fslept,            \* per batch: the time.sleep durations, in order
    fsent,             \* per batch: the id lists, other than its own, its requests carried
    chunk_result,      \* per batch: what fetch_images_chunk returned
    npc,               \* position of fetch_node_images
    batch_idx, image_urls,
    pauses             \* seconds slept between the waves

fetchv == <<ids_chunks, k429, answer, retry_after, params_ids, fpc, fretry, fcalls,
            fslept, fsent, chunk_result, npc, batch_idx, image_urls, pauses>>

\* State of one call of chunk(ids, url, params, max_len) taken on its own
VARIABLES
    chunk_ids,         \* ids
    base_len,          \* len(url) + len(urlencode(params))
    max_len,
    cpos,              \* ids consumed by the for loop
    cur_chunk,         \* chunk
    yielded,           \* the batches yielded so far
    chunk_pc

chunkv == <<chunk_ids, base_len, max_len, cpos, cur_chunk, yielded, chunk_pc>>

\* State of one call of get_node_ids(data, depth, skip_canvas) taken on its own
VARIABLES
    data,              \* data["document"]["children"]: the canvases
    depth,
    skip_canvas,
    node_ids,          \* what the call returned, or the exception it raised
    gpc

nodev == <<data, depth, skip_canvas, node_ids, gpc>>

\* State of one call of chunked_zips(a, b, n) taken on its own
VARIABLES
    zip_a, zip_b, zip_n,
    zips,              \* the list returned
    zpc

zipv == <<zip_a, zip_b, zip_n, zips, zpc>>

\* State of a caller of download_image(url, output_path) taken on its own
VARIABLES
    dl_tasks,          \* the calls to make: the url and what goes wrong in the call
    dl_idx,            \* the call being made
    dl_pc,
    dl_result,         \* what the last call returned
    dl_file,           \* per call: the state of its output file
    dl_gets,           \* per call: the GET attempts made
    dl_tries,          \* per call: the times download_image's body was run
    progress           \* progress.update(1) calls

dlv == <<dl_tasks, dl_idx, dl_pc, dl_result, dl_file, dl_gets, dl_tries, progress>>

fnvars      == <<fetchv, chunkv, nodev, zipv, dlv>>
exceptFetch == <<chunkv, nodev, zipv, dlv>>
exceptChunk == <<fetchv, nodev, zipv, dlv>>
exceptNode  == <<fetchv, chunkv, zipv, dlv>>
exceptZip   == <<fetchv, chunkv, nodev, dlv>>
exceptDl    == <<fetchv, chunkv, nodev, zipv>>

inputs == <<json_files, concurrency, batch, files>>
shared == <<img_queue, now, errExists, errLog>>
wvars  == <<wpc, widx, wput, wraised, dirs>>
cvars  == <<cpc, items_to_process, batch_start_time, timeout_time, url, total, stopped>>
pool   == <<waveNo, pending, running>>
hist   == <<enqueued, handed, direct, written, logCalls, eodPut>>
vars   == <<fnvars, inputs, shared, mainpc, wvars, cvars, pool, hist>>

\* ------------------------------------------------------------------------
\* Pure helpers

\* chunked_zips(a, b, n): n shards of (a[i], b[i]) pairs, the remainder in the last
Zip(a, b) == [i \in 1..Len(a) |-> <<a[i], b[i]>>]

Slice(a, start, end) == SubSeq(a, start + 1, end)

\* variant: the last shard is cut like the others
chunked_zips_NoRemainder(a, b, n) ==
    LET per_zip == Len(a) \div n
    IN  [i \in 1..n |->
            Zip(Slice(a, (i - 1) * per_zip, (i - 1) * per_zip + per_zip),
                Slice(b, (i - 1) * per_zip, (i - 1) * per_zip + per_zip))]

chunked_zips(a, b, n) ==
    LET zipsize   == Len(a)
        per_zip   == zipsize \div n
        remainder == zipsize - per_zip * n
    IN  [i \in 1..n |->
            IF i < n
            THEN Zip(Slice(a, (i - 1) * per_zip, (i - 1) * per_zip + per_zip),
                     Slice(b, (i - 1) * per_zip, (i - 1) * per_zip + per_zip))
            ELSE Zip(Slice(a, (n - 1) * per_zip, (n - 1) * per_zip + per_zip + remainder),
                     Slice(b, (n - 1) * per_zip, (n - 1) * per_zip + per_zip + remainder))]

\* main: file_keys and the shards handed to the worker threads
file_keys == [i \in 1..Len(json_files) |-> i]
chunks    == chunked_zips(file_keys, json_files, concurrency)
Workers   == 1..concurrency

Range(s) == {s[i] : i \in 1..Len(s)}

\* re.match(r"\d+:\d+", img)
MatchesIdPattern(img) == img[1] \in {"1:2", "1:3"}

\* fetch_images_chunk(chunk, retry) against an endpoint that still answers
\* 429 to the next k calls: raises ValueError once retry >= max_retry,
\* otherwise sleeps and calls itself with retry + 1.
RECURSIVE fetch_images_chunk(_, _, _, _)
fetch_images_chunk(chunk, retry, k, urls) ==
    IF k > 0
    THEN IF retry >= max_retry
         THEN [raised |-> TRUE, images |-> <<>>]
         ELSE fetch_images_chunk(chunk, retry + 1, k - 1, urls)
    ELSE [raised |-> FALSE,
          images |-> [i \in 1..Len(chunk) |-> <<chunk[i], urls[chunk[i]]>>]]

\* the url the remote API resolves a name of manifest m to
UrlOf(m, name) ==
    IF name \in m.nulls THEN None ELSE IF name \in m.dead THEN URL404 ELSE URL

\* fetch_node_images(file_key, ids, ...): the ids of the model fit one batch
fetch_node_images(m, ids) ==
    fetch_images_chunk(ids, 0, m.k429, [id \in Range(ids) |-> UrlOf(m, id)])

\* download_image(url, output_path): never raises; the file is written when
\* the GET succeeds
download_image(u) ==
    IF u = None THEN "noop" ELSE IF u = URL THEN "written" ELSE "failed"

\* [x for x in s if P(x)]
RECURSIVE SelectSeqBy(_, _)
SelectSeqBy(s, keep) ==
    IF s = <<>> THEN <<>>
    ELSE (IF Head(s) \in keep THEN <<Head(s)>> ELSE <<>>) \o SelectSeqBy(Tail(s), keep)

\* File names, as the list of the pieces they are formatted from.
\* f"{hash_}.{format}"
FillFile(hash_) == <<hash_, ".", format>>

\* f"{node_id}{'@' + str(scale) + 'x' if scale != '1' else ''}.{format}"
BakeFile(node_id) ==
    <<node_id>> \o (IF scale # "1" THEN <<"@", scale, "x">> ELSE <<>>) \o <<".", format>>

\* os.listdir(<key>/<dir>): what was there before the run and what was written
ListDir(key, m, dir) ==
    (IF dir = "images" THEN {FillFile(h) : h \in m.imagesDir}
                       ELSE {BakeFile(n) : n \in m.bakesDir})
        \cup {p[3] : p \in {q \in written : q[1] = key /\ q[2] = dir}}

\* variant: every node is fetched again
NodeToFetch_Always(node_id, existing_images) == TRUE

\* f"{node_id}.{format}" not in existing_images
\* and f"{node_id}@{scale}x.{format}" not in existing_images
NodeToFetch(node_id, existing_images) ==
    /\ <<node_id, ".", format>> \notin existing_images
    /\ <<node_id, "@", scale, "x", ".", format>> \notin existing_images

\* subdir / "thumbnail.png"
ThumbnailPath(key) == <<key, ".", <<"thumbnail", ".", "png">>>>

\* variant: the thumbnail is never found
IsFile_Never(key, m) == FALSE

\* (subdir / "thumbnail.png").is_file()
IsFile(key, m) == m.thumb \/ ThumbnailPath(key) \in written

\* no call of fetch_node_images is being followed
FetchIdle ==
    /\ ids_chunks = <<>>
    /\ k429 = <<>>
    /\ answer = "ok"
    /\ retry_after = None
    /\ params_ids = <<>>
    /\ fpc = <<>>
    /\ fretry = <<>>
    /\ fcalls = <<>>
    /\ fslept = <<>>
    /\ fsent = <<>>
    /\ chunk_result = <<>>
    /\ npc = "idle"
    /\ batch_idx = 0
    /\ image_urls = <<>>
    /\ pauses = 0

\* no call of chunk is being followed
ChunkIdle ==
    /\ chunk_ids = <<>>
    /\ base_len = 0
    /\ max_len = 0
    /\ cpos = 0
    /\ cur_chunk = <<>>
    /\ yielded = <<>>
    /\ chunk_pc = "idle"

\* no call of get_node_ids is being followed
NodeIdle ==
    /\ data = <<>>
    /\ depth = 0
    /\ skip_canvas = TRUE
    /\ node_ids = [raised |-> "none", ids |-> <<>>]
    /\ gpc = "idle"

\* no call of chunked_zips is being followed
ZipIdle ==
    /\ zip_a = <<>>
    /\ zip_b = <<>>
    /\ zip_n = 1
    /\ zips = <<>>
    /\ zpc = "idle"

\* no caller of download_image is being followed
DlIdle ==
    /\ dl_tasks = <<>>
    /\ dl_idx = 0
    /\ dl_pc = "idle"
    /\ dl_result = <<None, None>>
    /\ dl_file = <<>>
    /\ dl_gets = <<>>
    /\ dl_tries = <<>>
    /\ progress = 0

\* none of the functions is being followed on its own
FnIdle == FetchIdle /\ ChunkIdle /\ NodeIdle /\ ZipIdle /\ DlIdle

\* ------------------------------------------------------------------------
\* Initial state: main has built the queue, started the download thread and
\* one process_files thread per shard (images.py:49-93)
Init ==
    /\ FnIdle
    /\ json_files \in SeqsUpTo(Manifests, MaxFiles)
    /\ concurrency \in 1..MaxConc
    /\ batch \in 1..MaxBatch
    /\ files = chunks
    /\ img_queue = <<>>
    /\ now = 0
    /\ errExists = FALSE
    /\ errLog = <<>>
    /\ mainpc = "join"
    /\ wpc = [w \in 1..concurrency |-> "next"]
    /\ widx = [w \in 1..concurrency |-> 1]
    /\ wput = [w \in 1..concurrency |-> <<>>]
    /\ wraised = [w \in 1..concurrency |-> "none"]
    /\ dirs = {}
    /\ cpc = "wave_start"
    /\ items_to_process = <<>>
    /\ batch_start_time = 0
    /\ timeout_time = 0
    /\ url = None
    /\ total = 0
    /\ stopped = "running"
    /\ waveNo = 0
    /\ pending = <<>>
    /\ running = {}
    /\ enqueued = {}
    /\ handed = {}
    /\ direct = {}
    /\ written = {}
    /\ logCalls = [k \in 1..Len(json_files) |-> 0]
    /\ eodPut = 0

\* ------------------------------------------------------------------------
\* Manifest Worker: process_files(files, ...).  A step of a worker runs the
\* code up to and including its next access to something another thread can
\* see (the queue, err.log) or to the end of the thread.

CurKey(w)      == files[w][widx[w]][1]
CurManifest(w) == files[w][widx[w]][2]

\* an exception nobody catches ends the thread
Raise(w, exc) ==
    /\ wpc' = [wpc EXCEPT ![w] = "dead"]
    /\ wraised' = [wraised EXCEPT ![w] = exc]
    /\ wput' = [wput EXCEPT ![w] = <<>>]
    /\ UNCHANGED widx

\* pbar.update(1) and the next iteration of the for loop
NextFile(w) ==
    /\ wpc' = [wpc EXCEPT ![w] = "next"]
    /\ widx' = [widx EXCEPT ![w] = @ + 1]
    /\ wput' = [wput EXCEPT ![w] = <<>>]
    /\ UNCHANGED wraised

\* for pair in url_and_path_pairs: the loop is entered with pairs to put
StartPut(w, stage, pairs) ==
    /\ wpc' = [wpc EXCEPT ![w] = stage]
    /\ wput' = [wput EXCEPT ![w] = pairs]
    /\ UNCHANGED <<widx, wraised>>

\* file_data["thumbnailUrl"] and get_node_ids(file_data): the key lookups
ThumbnailUrlKeyError(m) == m.json = "no_thumbnailUrl"
GetNodeIdsKeyError(m)   == m.json = "no_document"

\* image fills (images.py:127-146): the pairs to put, none when the fetch is
\* skipped
FillPairs(key, m) ==
    LET existing_images == ListDir(key, m, "images")
        image_fills == m.fills
    IN  IF ~no_fills /\ (\A img \in existing_images : MatchesIdPattern(img))
        THEN [i \in 1..Len(image_fills) |->
                 [url |-> UrlOf(m, image_fills[i]),
                  path |-> <<key, "images", FillFile(image_fills[i])>>]]
        ELSE <<>>

\* bakes (images.py:150-182), up to the first put; made: the directories
\* made earlier in the same step
WorkerBakes(w, key, m, made) ==
    LET existing_images == ListDir(key, m, "bakes")
        node_ids_to_fetch ==
            SelectSeqBy(m.nodes, {n \in Range(m.nodes) : NodeToFetch(n, existing_images)})
        layer_images == fetch_node_images(m, node_ids_to_fetch)
        url_and_path_pairs ==
            [i \in 1..Len(layer_images.images) |->
                [url |-> layer_images.images[i][2],
                 path |-> <<key, "bakes", BakeFile(layer_images.images[i][1])>>]]
    IN  /\ dirs' = dirs \cup made \cup {<<key, "bakes">>}
        /\ IF node_ids_to_fetch = <<>>
              THEN NextFile(w)
              ELSE IF layer_images.raised
              THEN Raise(w, "ValueError")
              ELSE IF url_and_path_pairs = <<>>
              THEN NextFile(w)
              ELSE StartPut(w, "put_bakes", url_and_path_pairs)

\* top of the for loop (images.py:106-146): read_file_data, the thumbnail,
\* get_node_ids and the fetch of the image fills
WorkerNext(w) ==
    /\ wpc[w] = "next"
    /\ IF widx[w] > Len(files[w])
       THEN /\ wpc' = [wpc EXCEPT ![w] = "done"]
            /\ UNCHANGED <<widx, wput, wraised, dirs, direct, written>>
       ELSE LET key == CurKey(w)
                m   == CurManifest(w)
                subdir == {<<key, ".">>}     \* subdir.mkdir(parents=True, exist_ok=True)
            IN  IF m.json = "invalid"
                THEN \* read_file_data: json.load raises; log_error looks
                     \* whether err.log exists
                     /\ wpc' = [wpc EXCEPT ![w] = IF errExists THEN "log_append"
                                                  ELSE "log_create"]
                     /\ dirs' = dirs \cup subdir
                     /\ UNCHANGED <<widx, wput, wraised, direct, written>>
                ELSE IF ~IsFile(key, m) /\ ThumbnailUrlKeyError(m)
                THEN /\ Raise(w, "KeyError")
                     /\ dirs' = dirs \cup subdir
                     /\ UNCHANGED <<direct, written>>
                ELSE /\ IF ~IsFile(key, m)
                        THEN \* download_image(thumbnail_url, ...) in this thread
                             /\ direct' = direct \cup {ThumbnailPath(key)}
                             /\ written' =
                                   IF download_image(UrlOf(m, "thumbnail")) = "written"
                                   THEN written \cup {ThumbnailPath(key)} ELSE written
                        ELSE UNCHANGED <<direct, written>>
                     /\ IF GetNodeIdsKeyError(m)
                        THEN /\ Raise(w, "KeyError")
                             /\ dirs' = dirs \cup subdir
                        ELSE IF no_fills
                        THEN WorkerBakes(w, key, m, subdir)
                        ELSE IF FillPairs(key, m) # <<>>
                        THEN \* images_dir.mkdir(parents=True, exist_ok=True)
                             /\ StartPut(w, "put_fills", FillPairs(key, m))
                             /\ dirs' = dirs \cup subdir \cup {<<key, "images">>}
                        ELSE WorkerBakes(w, key, m, subdir \cup {<<key, "images">>})
    /\ UNCHANGED <<fnvars, inputs, shared, mainpc, cvars, pool, enqueued, handed, logCalls, eodPut>>

\* variant: the decode error is raised again after it is logged
SkipMalformed_Reraise(w) == Raise(w, "JSONDecodeError")

\* read_file_data returns None, "if file_data:" is false (images.py:452, 113,
\* 183-185)
SkipMalformed(w) == NextFile(w)

\* log_error(msg) called by read_file_data (images.py:416-431, 440-452):
\* err.log did not exist and is opened with "w"
LogCreate(w) ==
    /\ wpc[w] = "log_create"
    /\ errExists' = TRUE
    /\ errLog' = <<>>
    /\ wpc' = [wpc EXCEPT ![w] = "log_append"]
    /\ UNCHANGED <<fnvars, inputs, img_queue, now, mainpc, widx, wput, wraised, dirs, cvars, pool, hist>>

\* err.log is opened with "a" and the message written; read_file_data returns
\* None and the file is skipped
LogAppend(w) ==
    /\ wpc[w] = "log_append"
    /\ errExists' = TRUE
    /\ errLog' = Append(errLog, CurKey(w))
    /\ logCalls' = [logCalls EXCEPT ![CurKey(w)] = @ + 1]
    /\ SkipMalformed(w)
    /\ UNCHANGED <<fnvars, inputs, img_queue, now, mainpc, dirs, cvars, pool,
                   enqueued, handed, direct, written, eodPut>>

\* img_queue.put(pair) for the next pair (images.py:142-143, 176-177); after
\* the last fill the bakes follow, after the last bake the next file
WorkerPut(w) ==
    /\ wpc[w] \in {"put_fills", "put_bakes"}
    /\ wput[w] # <<>>
    /\ img_queue' = Append(img_queue, Head(wput[w]))
    /\ enqueued' = enqueued \cup {Head(wput[w])}
    /\ IF Tail(wput[w]) # <<>>
       THEN /\ wput' = [wput EXCEPT ![w] = Tail(@)]
            /\ UNCHANGED <<wpc, widx, wraised, dirs>>
       ELSE IF wpc[w] = "put_fills"
       THEN WorkerBakes(w, CurKey(w), CurManifest(w), {})
       ELSE NextFile(w) /\ UNCHANGED dirs
    /\ UNCHANGED <<fnvars, inputs, now, errExists, errLog, mainpc, cvars, pool,
                   handed, direct, written, logCalls, eodPut>>

\* ------------------------------------------------------------------------
\* main after the threads are started (images.py:95-102)

\* variants of the join: no join at all; a join that only a normal return ends
AllWorkersJoined_NoJoin == TRUE

AllWorkersJoined_NormalOnly == \A w \in 1..concurrency : wpc[w] = "done"

\* for t in threads: t.join()  -- returns for a thread that ended either way
AllWorkersJoined == \A w \in Workers : wpc[w] \in {"done", "dead"}

MainPutSentinel ==
    /\ mainpc = "join"
    /\ AllWorkersJoined
    /\ img_queue' = Append(img_queue, Sentinel)
    /\ eodPut' = eodPut + 1
    /\ mainpc' = "join_download"
    /\ UNCHANGED <<fnvars, inputs, now, errExists, errLog, wvars, cvars, pool,
                   enqueued, handed, direct, written, logCalls>>

\* download_thread.join()
MainJoinDownload ==
    /\ mainpc = "join_download"
    /\ cpc = "done"
    /\ mainpc' = "done"
    /\ UNCHANGED <<fnvars, inputs, shared, wvars, cvars, pool, hist>>

\* ------------------------------------------------------------------------
\* Coordinator: image_queue_handler(img_queue, batch, timeout)

\* url == 'EOD'
IsSentinel(u) == u = EOD

\* time.time() > timeout_time
PastTimeout(t) == t > timeout_time

\* variant: <= in place of <
WaveOpen_OffByOne(items) == Len(items) <= batch

\* variant: the wave is closed by its first item
WaveOpen_FirstItem(items) == Len(items) < 1

\* while len(items_to_process) < batch
WaveOpen(items) == Len(items) < batch

\* top of while True (images.py:236-241); only differences of clock readings
\* are used, so the clock is read relative to this moment
CoordWaveStart ==
    /\ cpc = "wave_start"
    /\ items_to_process' = <<>>
    /\ now' = 0
    /\ batch_start_time' = now'
    /\ timeout_time' = now' + timeout
    /\ url' = None
    /\ cpc' = IF WaveOpen(<<>>) THEN "poll" ELSE "after_inner"
    /\ UNCHANGED <<fnvars, inputs, img_queue, errExists, errLog, mainpc, wvars, total,
                   stopped, pool, hist>>

\* img_queue.get(timeout=1) returns an item (images.py:245-253)
CoordGet ==
    /\ cpc = "poll"
    /\ img_queue # <<>>
    /\ LET item == Head(img_queue)
       IN  /\ img_queue' = Tail(img_queue)
           /\ url' = item.url
           /\ IF IsSentinel(item.url)
              THEN /\ cpc' = "after_inner"
                   /\ UNCHANGED <<items_to_process, total, batch_start_time>>
              ELSE IF item.url # None
              THEN /\ items_to_process' = Append(items_to_process, item)
                   /\ total' = total + 1
                   /\ batch_start_time' = now
                   /\ cpc' = IF WaveOpen(Append(items_to_process, item))
                             THEN "poll" ELSE "after_inner"
              ELSE UNCHANGED <<cpc, items_to_process, total, batch_start_time>>
    /\ UNCHANGED <<fnvars, inputs, now, errExists, errLog, mainpc, wvars,
                   timeout_time, stopped, pool, hist>>

\* img_queue.get(timeout=1) raises queue.Empty after one poll interval
\* (images.py:254-257)
CoordEmpty ==
    /\ cpc = "poll"
    /\ img_queue = <<>>
    /\ now' = now + 1
    /\ cpc' = IF PastTimeout(now + 1) THEN "after_inner" ELSE "poll"
    /\ UNCHANGED <<fnvars, inputs, img_queue, errExists, errLog, mainpc, wvars,
                   items_to_process, batch_start_time, timeout_time, url, total,
                   stopped, pool, hist>>

\* after the inner loop: the three breaks, else the wave goes to a new
\* ThreadPoolExecutor(max_workers=batch) (images.py:259-272)
CoordAfterInner ==
    /\ cpc = "after_inner"
    /\ IF PastTimeout(now)
       THEN /\ stopped' = "timeout"
            /\ cpc' = "done"
            /\ UNCHANGED pool
       ELSE IF IsSentinel(url)
       THEN /\ stopped' = "sentinel"
            /\ cpc' = "done"
            /\ UNCHANGED pool
       ELSE IF items_to_process = <<>>
       THEN /\ stopped' = "empty"
            /\ cpc' = "done"
            /\ UNCHANGED pool
       ELSE /\ waveNo' = waveNo + 1
            /\ pending' = pending \o
                   [i \in 1..Len(items_to_process) |->
                       [wave |-> waveNo + 1, task |-> items_to_process[i]]]
            /\ cpc' = "join"
            /\ UNCHANGED <<running, stopped>>
    /\ UNCHANGED <<fnvars, inputs, shared, mainpc, wvars, items_to_process,
                   batch_start_time, timeout_time, url, total, hist>>

\* variant: the executor is not waited for
WaveJoined_NoWait == TRUE

\* leaving the with block: executor.shutdown(wait=True)
WaveJoined == pending = <<>> /\ running = {}

\* end of the with block, time.sleep(0.1), progress.close() (images.py:270-275)
CoordJoin ==
    /\ cpc = "join"
    /\ WaveJoined
    /\ cpc' = "wave_start"
    /\ UNCHANGED <<fnvars, inputs, shared, mainpc, wvars, items_to_process,
                   batch_start_time, timeout_time, url, total, stopped, pool, hist>>

\* the clock moves while the coordinator is between two readings of it
Tick ==
    /\ cpc \in {"poll", "after_inner"}
    /\ now <= timeout_time
    /\ now' = now + 1
    /\ UNCHANGED <<fnvars, inputs, img_queue, errExists, errLog, mainpc, wvars, cvars, pool, hist>>

\* ------------------------------------------------------------------------
\* Transfer Executor pool of one wave

\* ThreadPoolExecutor(max_workers=batch)
max_workers == batch

\* a pool thread takes the next submitted item and calls
\* download_image_with_progress_bar on it
TransferStart ==
    /\ pending # <<>>
    /\ LET h == Head(pending)
       IN  /\ Cardinality({r \in running : r.wave = h.wave}) < max_workers
           /\ running' = running \cup {h}
           /\ handed' = handed \cup {h.task}
    /\ pending' = Tail(pending)
    /\ UNCHANGED <<fnvars, inputs, shared, mainpc, wvars, cvars, waveNo,
                   enqueued, direct, written, logCalls, eodPut>>

\* download_image returns: the file is written, or (None, None) after a failure
TransferFinish(r) ==
    /\ r \in running
    /\ running' = running \ {r}
    /\ written' = IF download_image(r.task.url) = "written"
                  THEN written \cup {r.task.path} ELSE written
    /\ UNCHANGED <<fnvars, inputs, shared, mainpc, wvars, cvars, waveNo, pending,
                   enqueued, handed, direct, logCalls, eodPut>>

\* ------------------------------------------------------------------------
Next ==
    \/ \E w \in Workers : WorkerNext(w)
    \/ \E w \in Workers : LogCreate(w)
    \/ \E w \in Workers : LogAppend(w)
    \/ \E w \in Workers : WorkerPut(w)
    \/ MainPutSentinel
    \/ MainJoinDownload
    \/ CoordWaveStart
    \/ CoordGet
    \/ CoordEmpty
    \/ CoordAfterInner
    \/ CoordJoin
    \/ Tick
    \/ TransferStart
    \/ \E r \in running : TransferFinish(r)

Spec == Init /\ [][Next]_vars

\* the threads are scheduled fairly and their blocking calls return: the
\* queue poll after its timeout, a transfer after its request timeout.  The
\* workers get no fairness: their API requests carry no timeout.
Main        == MainPutSentinel \/ MainJoinDownload

Coordinator == CoordWaveStart \/ CoordGet \/ CoordEmpty \/ CoordAfterInner \/ CoordJoin

Transfers   == TransferStart \/ \E r \in running : TransferFinish(r)

FairSpec ==
    /\ Spec
    /\ WF_vars(Main)
    /\ WF_vars(Coordinator)
    /\ WF_vars(Transfers)

\* ------------------------------------------------------------------------
\* fetch_node_images(file_key, ids, ...) on its own (images.py:305-404): one
\* fetch_images_chunk thread per batch of a wave, all of them writing and
\* reading the one params dict.

\* the pipeline is not running
PipelineIdle ==
    /\ json_files = <<>>
    /\ concurrency = 1
    /\ batch = 1
    /\ files = <<>>
    /\ img_queue = <<>>
    /\ now = 0
    /\ errExists = FALSE
    /\ errLog = <<>>
    /\ mainpc = "idle"
    /\ wpc = <<>>
    /\ widx = <<>>
    /\ wput = <<>>
    /\ wraised = <<>>
    /\ dirs = {}
    /\ cpc = "idle"
    /\ items_to_process = <<>>
    /\ batch_start_time = 0
    /\ timeout_time = 0
    /\ url = None
    /\ total = 0
    /\ stopped = "running"
    /\ waveNo = 0
    /\ pending = <<>>
    /\ running = {}
    /\ enqueued = {}
    /\ handed = {}
    /\ direct = {}
    /\ written = {}
    /\ logCalls = <<>>
    /\ eodPut = 0

\* node ids, one per batch
NodeIds == <<"1:2", "1:3", "1:4", "1:5">>

\* retry-after headers: absent or "15"; a header is its string of digits
RetryAfterHeaders == {None, <<1, 5>>}

\* endpoints: the retry-after header of their 429 answers and what they
\* answer after the 429s (data["images"], data["err"], no connection)
Endpoints ==
    {[retry_after |-> None,      answer |-> "ok"],
     [retry_after |-> <<1, 5>>,  answer |-> "ok"],
     [retry_after |-> <<1, 5>>,  answer |-> "err"],
     [retry_after |-> None,      answer |-> "ConnectionError"]}

\* int(retry_after)
RECURSIVE int(_)
int(digits) ==
    IF digits = <<>> THEN 0
    ELSE 10 * int(SubSeq(digits, 1, Len(digits) - 1)) + digits[Len(digits)]

\* variant: the header is not read
RetryAfter_Ignored(header) == delay_between_429

\* retry_after = int(retry_after) if retry_after else delay_between_429
RetryAfter(header) ==
    IF header # None /\ header # <<>> THEN int(header) ELSE delay_between_429

\* variant: the retries are not counted
RetryExhausted_Never(r) == FALSE

\* if retry >= max_retry: raise ValueError
RetryExhausted(r) == r >= max_retry

\* data["images"] of a successful answer to a request for ids
Images(ids) == [id \in Range(ids) |-> URL]

\* dict.update
Update(d, e) == [k \in DOMAIN d \cup DOMAIN e |-> IF k \in DOMAIN e THEN e[k] ELSE d[k]]

\* num_batches = -(-len(ids_chunks) // max_concurrent_requests)
num_batches == (Len(ids_chunks) + max_concurrent_requests - 1) \div max_concurrent_requests

\* variant: a wave takes one batch more
batch_chunks_OneMore ==
    LET start_idx == batch_idx * max_concurrent_requests
        end_idx   == start_idx + max_concurrent_requests + 1
    IN  {i \in 1..Len(ids_chunks) : start_idx < i /\ i <= end_idx}

\* ids_chunks[start_idx:end_idx], by position
batch_chunks ==
    LET start_idx == batch_idx * max_concurrent_requests
        end_idx   == start_idx + max_concurrent_requests
    IN  {i \in 1..Len(ids_chunks) : start_idx < i /\ i <= end_idx}

FetchInit ==
    /\ PipelineIdle
    /\ ChunkIdle
    /\ NodeIdle
    /\ ZipIdle
    /\ DlIdle
    /\ \E n \in 1..MaxChunks :
          /\ ids_chunks = [i \in 1..n |-> <<NodeIds[i]>>]
          /\ \E k \in 0..(max_retry + 1) : \E limited \in SUBSET (1..n) :
                k429 = [i \in 1..n |-> IF i \in limited THEN k ELSE 0]
          /\ fpc = [i \in 1..n |-> "idle"]
          /\ fretry = [i \in 1..n |-> 0]
          /\ fcalls = [i \in 1..n |-> 0]
          /\ fslept = [i \in 1..n |-> <<>>]
          /\ fsent = [i \in 1..n |-> {}]
          /\ chunk_result = [i \in 1..n |-> None]
    /\ \E e \in Endpoints : answer = e.answer /\ retry_after = e.retry_after
    /\ params_ids = <<>>
    /\ npc = "wave"
    /\ batch_idx = 0
    /\ image_urls = <<>>
    /\ pauses = 0

\* a wave begins: executor.map(fetch_images_chunk, batch_chunks) starts one
\* thread per batch (images.py:389-395)
FetchWaveStart ==
    /\ npc = "wave"
    /\ fpc' = [i \in 1..Len(ids_chunks) |->
                  IF i \in batch_chunks THEN "set_params" ELSE fpc[i]]
    /\ npc' = "map"
    /\ UNCHANGED <<ids_chunks, k429, answer, retry_after, params_ids, fretry, fcalls,
                   fslept, fsent, chunk_result, batch_idx, image_urls, pauses>>
    /\ UNCHANGED <<exceptFetch, inputs, shared, mainpc, wvars, cvars, pool, hist>>

\* params["ids"] = ",".join(chunk): the joined string is kept as the list of
\* its ids (images.py:342)
FetchSetParams(i) ==
    /\ fpc[i] = "set_params"
    /\ params_ids' = ids_chunks[i]
    /\ fpc' = [fpc EXCEPT ![i] = "request"]
    /\ UNCHANGED <<ids_chunks, k429, answer, retry_after, fretry, fcalls,
                   fslept, fsent, chunk_result, npc, batch_idx, image_urls, pauses>>
    /\ UNCHANGED <<exceptFetch, inputs, shared, mainpc, wvars, cvars, pool, hist>>

\* requests.get(url, headers, params) and what follows up to the return, the
\* raise or the recursive call (images.py:343-378)
FetchRequest(i) ==
    /\ fpc[i] = "request"
    /\ fcalls' = [fcalls EXCEPT ![i] = @ + 1]
    /\ fsent' = [fsent EXCEPT ![i] = @ \cup ({params_ids} \ {ids_chunks[i]})]
    /\ IF fcalls[i] < k429[i]
       THEN \* response.status_code == 429
            /\ IF RetryExhausted(fretry[i])
               THEN /\ fpc' = [fpc EXCEPT ![i] = "raised"]
                    /\ UNCHANGED <<fretry, fslept>>
               ELSE /\ fslept' = [fslept EXCEPT ![i] = Append(@, RetryAfter(retry_after))]
                    /\ fretry' = [fretry EXCEPT ![i] = @ + 1]
                    /\ fpc' = [fpc EXCEPT ![i] = "set_params"]
            /\ UNCHANGED <<chunk_result, errExists, errLog>>
       ELSE /\ fpc' = [fpc EXCEPT ![i] = "returned"]
            /\ UNCHANGED <<fretry, fslept>>
            /\ IF answer = "ok"
               THEN /\ chunk_result' = [chunk_result EXCEPT ![i] = Images(params_ids)]
                    /\ UNCHANGED <<errExists, errLog>>
               ELSE IF answer = "err"
               THEN \* data["err"]: log_error(msg), return {}
                    /\ chunk_result' = [chunk_result EXCEPT ![i] = <<>>]
                    /\ errExists' = TRUE
                    /\ errLog' = Append(errLog, ids_chunks[i])
               ELSE \* except ConnectionError: return {}
                    /\ chunk_result' = [chunk_result EXCEPT ![i] = <<>>]
                    /\ UNCHANGED <<errExists, errLog>>
    /\ UNCHANGED <<ids_chunks, k429, answer, retry_after, params_ids,
                   npc, batch_idx, image_urls, pauses>>
    /\ UNCHANGED <<exceptFetch, inputs, img_queue, now, mainpc, wvars, cvars, pool, hist>>

RECURSIVE UpdateAll(_, _, _)
UpdateAll(d, results, order) ==
    IF order = <<>> THEN d
    ELSE UpdateAll(Update(d, results[Head(order)]), results, Tail(order))

\* the threads of the wave have ended: the results are merged in batch
\* order, or the ValueError of a batch leaves fetch_node_images; a sleep
\* follows every wave but the last (images.py:394-404)
FetchWaveEnd ==
    /\ npc = "map"
    /\ \A i \in batch_chunks : fpc[i] \in {"returned", "raised"}
    /\ IF \E i \in batch_chunks : fpc[i] = "raised"
       THEN /\ npc' = "raised"
            /\ UNCHANGED <<batch_idx, image_urls, pauses>>
       ELSE /\ image_urls' = UpdateAll(image_urls, chunk_result,
                                       SelectSeqBy([i \in 1..Len(ids_chunks) |-> i], batch_chunks))
            /\ IF batch_idx < num_batches - 1
               THEN /\ pauses' = pauses + delay_between_batches
                    /\ batch_idx' = batch_idx + 1
                    /\ npc' = "wave"
               ELSE /\ npc' = "returned"
                    /\ UNCHANGED <<batch_idx, pauses>>
    /\ UNCHANGED <<ids_chunks, k429, answer, retry_after, params_ids, fpc, fretry,
                   fcalls, fslept, fsent, chunk_result>>
    /\ UNCHANGED <<exceptFetch, inputs, shared, mainpc, wvars, cvars, pool, hist>>

FetchNext ==
    \/ FetchWaveStart
    \/ \E i \in 1..Len(ids_chunks) : FetchSetParams(i)
    \/ \E i \in 1..Len(ids_chunks) : FetchRequest(i)
    \/ FetchWaveEnd

FetchSpec == FetchInit /\ [][FetchNext]_vars

\* fetch_node_images on ids that give one batch, or more batches than
\* max_concurrent_requests, so that there are several waves.  The batches all
\* hold the same id: what is followed here is when the threads run, not
\* which ids a request carries.  The first batch may be answered 429 once.
WaveInit ==
    /\ PipelineIdle
    /\ ChunkIdle
    /\ NodeIdle
    /\ ZipIdle
    /\ DlIdle
    /\ \E n \in {1} \cup ((max_concurrent_requests + 1)..MaxWaveChunks) :
          /\ ids_chunks = [i \in 1..n |-> <<NodeIds[1]>>]
          /\ \E k \in 0..1 : k429 = [i \in 1..n |-> IF i = 1 THEN k ELSE 0]
          /\ fpc = [i \in 1..n |-> "idle"]
          /\ fretry = [i \in 1..n |-> 0]
          /\ fcalls = [i \in 1..n |-> 0]
          /\ fslept = [i \in 1..n |-> <<>>]
          /\ fsent = [i \in 1..n |-> {}]
          /\ chunk_result = [i \in 1..n |-> None]
    /\ answer = "ok"
    /\ retry_after = None
    /\ params_ids = <<>>
    /\ npc = "wave"
    /\ batch_idx = 0
    /\ image_urls = <<>>
    /\ pauses = 0

WaveSpec == WaveInit /\ [][FetchNext]_vars

\* ------------------------------------------------------------------------
\* chunk(ids, url, params, max_len) on its own (images.py:316-333).  An id is
\* its string of characters.

ChunkIds == {<<"a">>, <<"b", "b">>, <<"c", "c", "c">>}

\* ",".join(chunk)
RECURSIVE Join(_)
Join(c) ==
    IF c = <<>> THEN <<>>
    ELSE IF Len(c) = 1 THEN c[1]
    ELSE c[1] \o <<",">> \o Join(Tail(c))

\* len(url) + len(",".join(chunk)) + len(urlencode(params))
get_chunk_len(c) == base_len + Len(Join(c))

\* variant: the id that does not fit is left out
AfterYield_Drop(id_) == <<>>

\* chunk = [] ; chunk.append(id_)
AfterYield(id_) == <<id_>>

RECURSIVE Concat(_)
Concat(ss) == IF ss = <<>> THEN <<>> ELSE Head(ss) \o Concat(Tail(ss))

ChunkInit ==
    /\ PipelineIdle
    /\ FetchIdle
    /\ NodeIdle
    /\ ZipIdle
    /\ DlIdle
    /\ chunk_ids \in SeqsUpTo(ChunkIds, MaxIds)
    /\ base_len \in 0..1
    /\ max_len \in 1..MaxLen
    /\ cpos = 0
    /\ cur_chunk = <<>>
    /\ yielded = <<>>
    /\ chunk_pc = "loop"

\* one turn of "for id_ in ids" (images.py:328-332)
ChunkStep ==
    /\ chunk_pc = "loop"
    /\ cpos < Len(chunk_ids)
    /\ LET id_ == chunk_ids[cpos + 1]
       IN  IF get_chunk_len(Append(cur_chunk, id_)) > max_len
           THEN /\ yielded' = Append(yielded, cur_chunk)
                /\ cur_chunk' = AfterYield(id_)
           ELSE /\ cur_chunk' = Append(cur_chunk, id_)
                /\ UNCHANGED yielded
    /\ cpos' = cpos + 1
    /\ UNCHANGED <<chunk_ids, base_len, max_len, chunk_pc>>
    /\ UNCHANGED <<exceptChunk, inputs, shared, mainpc, wvars, cvars, pool, hist>>

\* the yield after the loop (images.py:333)
ChunkLastYield ==
    /\ chunk_pc = "loop"
    /\ cpos = Len(chunk_ids)
    /\ yielded' = Append(yielded, cur_chunk)
    /\ chunk_pc' = "done"
    /\ UNCHANGED <<chunk_ids, base_len, max_len, cpos, cur_chunk>>
    /\ UNCHANGED <<exceptChunk, inputs, shared, mainpc, wvars, cvars, pool, hist>>

ChunkNext == ChunkStep \/ ChunkLastYield

ChunkSpec == ChunkInit /\ [][ChunkNext]_vars

\* ------------------------------------------------------------------------
\* get_node_ids(data, depth, skip_canvas) on its own (images.py:459-493).  A
\* node is a record with an id and, when it has the key, its children; the id
\* of a node is its path from the document, so ids are unique.

\* depth=None
NoDepth == -1

Leaf(path) == [id |-> path]

\* a node with h levels below it: a subtree of h - 1 levels and a leaf
RECURSIVE Tree(_, _)
Tree(path, h) ==
    IF h = 0 THEN Leaf(path)
    ELSE [id |-> path,
          children |-> <<Tree(Append(path, 1), h - 1), Leaf(Append(path, 2))>>]

\* canvases: without the children key (-1), with no child (0), with h levels
\* below
CanvasShapes == -1..MaxHeight

Canvas(c, shape) ==
    IF shape = -1 THEN Leaf(<<c>>)
    ELSE IF shape = 0 THEN [id |-> <<c>>, children |-> <<>>]
    ELSE Tree(<<c>>, shape)

\* variant: the node at the limit is still taken
DepthReached_OffByOne(current_depth, limit) == limit # NoDepth /\ current_depth > limit

\* if depth is not None and current_depth >= depth
DepthReached(current_depth, limit) == limit # NoDepth /\ current_depth >= limit

RECURSIVE extract_ids_recursively(_, _, _)
RECURSIVE ExtractEach(_, _, _)
extract_ids_recursively(node, current_depth, limit) ==
    IF DepthReached(current_depth, limit)
    THEN <<>>
    ELSE <<node.id>> \o
         (IF "children" \in DOMAIN node
          THEN ExtractEach(node.children, current_depth + 1, limit)
          ELSE <<>>)

\* for child in children: ids.extend(extract_ids_recursively(child, d))
ExtractEach(children, d, limit) ==
    IF children = <<>> THEN <<>>
    ELSE extract_ids_recursively(Head(children), d, limit)
             \o ExtractEach(Tail(children), d, limit)

RECURSIVE ExtractCanvasChildren(_, _)
ExtractCanvasChildren(canvases, limit) ==
    IF canvases = <<>> THEN <<>>
    ELSE ExtractEach(Head(canvases).children, 0, limit)
             \o ExtractCanvasChildren(Tail(canvases), limit)

get_node_ids(canvases, limit, skip) ==
    IF skip
    THEN IF \E c \in 1..Len(canvases) : "children" \notin DOMAIN canvases[c]
         THEN [raised |-> "KeyError", ids |-> <<>>]
         ELSE [raised |-> "none", ids |-> ExtractCanvasChildren(canvases, limit)]
    ELSE [raised |-> "none", ids |-> ExtractEach(canvases, 0, limit)]

NodeInit ==
    /\ PipelineIdle
    /\ FetchIdle
    /\ ChunkIdle
    /\ ZipIdle
    /\ DlIdle
    /\ \E shapes \in SeqsUpTo(CanvasShapes, MaxCanvas) :
          data = [c \in 1..Len(shapes) |-> Canvas(c, shapes[c])]
    /\ depth \in {NoDepth} \cup 0..(MaxHeight + 1)
    /\ skip_canvas \in BOOLEAN
    /\ node_ids = [raised |-> "none", ids |-> <<>>]
    /\ gpc = "call"

GetNodeIds ==
    /\ gpc = "call"
    /\ node_ids' = get_node_ids(data, depth, skip_canvas)
    /\ gpc' = "returned"
    /\ UNCHANGED <<data, depth, skip_canvas>>
    /\ UNCHANGED <<exceptNode, inputs, shared, mainpc, wvars, cvars, pool, hist>>

NodeNext == GetNodeIds

NodeSpec == NodeInit /\ [][NodeNext]_vars

\* ------------------------------------------------------------------------
\* chunked_zips(a, b, n) on its own (images.py:503-519), called as main calls
\* it: a holds the file keys, b the manifest paths (images.py:56-71)

ZipInit ==
    /\ PipelineIdle
    /\ FetchIdle
    /\ ChunkIdle
    /\ NodeIdle
    /\ DlIdle
    /\ zip_b \in SeqsUpTo({"x.json", "y.json"}, MaxZip)
    /\ zip_a = [i \in 1..Len(zip_b) |-> i]
    /\ zip_n \in 1..MaxShards
    /\ zips = <<>>
    /\ zpc = "call"

ChunkedZips ==
    /\ zpc = "call"
    /\ zips' = chunked_zips(zip_a, zip_b, zip_n)
    /\ zpc' = "returned"
    /\ UNCHANGED <<zip_a, zip_b, zip_n>>
    /\ UNCHANGED <<exceptZip, inputs, shared, mainpc, wvars, cvars, pool, hist>>

ZipNext == ChunkedZips

ZipSpec == ZipInit /\ [][ZipNext]_vars

\* ------------------------------------------------------------------------
\* download_image(url, output_path) and a caller that makes one call after
\* the other (images.py:207-229, 118-120)

\* requests_retry_session(retries=3): Retry(total=retries) on the adapter
retries == 3

\* backoff.on_exception(..., max_tries=5)
max_tries == 5

\* what can go wrong in a call: nothing, or an exception raised by the GET
\* (on its first n attempts), by response.raise_for_status() (a status
\* outside status_forcelist, which the adapter does not retry) or while the
\* file is written
Faults ==
    {[at |-> "none", exc |-> "none", n |-> 0],
     [at |-> "status", exc |-> "HTTPError", n |-> 1],
     [at |-> "write", exc |-> "OSError", n |-> 1]}
    \cup [at : {"get"}, exc : {"ConnectionError", "Timeout", "SSLError"}, n : 1..MaxFail]

\* subclasses of requests.exceptions.RequestException
RequestExceptions == {"ConnectionError", "Timeout", "SSLError", "HTTPError"}

\* variant: except requests.exceptions.RequestException
Caught_RequestsOnly(exc) == exc \in RequestExceptions

\* except Exception as e
Caught(exc) == exc \in RequestExceptions \cup {"OSError"}

\* requests_retry_session().get(url, ...): the adapter re-attempts a failed
\* GET until Retry(total=retries) is used up, then the exception is raised
SessionGet(fault) ==
    LET failing == IF fault.at = "get" THEN fault.n ELSE 0
    IN  IF failing > retries
        THEN [gets |-> retries + 1, exc |-> fault.exc]
        ELSE [gets |-> failing + 1, exc |-> "none"]

\* one run of the body: the exception that leaves it, the value returned,
\* the output file, the GET attempts made
download_image_call(u, fault) ==
    IF u = None
    THEN [raised |-> "none", result |-> <<None, None>>, file |-> "absent", gets |-> 0]
    ELSE LET get == SessionGet(fault)
             exc == IF fault.at = "get" THEN get.exc ELSE fault.exc
         IN  IF exc = "none"
             THEN [raised |-> "none", result |-> <<u, "output_path">>,
                   file |-> "complete", gets |-> get.gets]
             ELSE [raised |-> IF Caught(exc) THEN "none" ELSE exc,
                   result |-> <<None, None>>,
                   file   |-> IF fault.at = "write" THEN "partial" ELSE "absent",
                   gets   |-> get.gets]

\* what is left of a fault after gets more GET attempts
FaultAfter(fault, gets) ==
    IF fault.at # "get" THEN fault
    ELSE IF fault.n <= gets THEN [at |-> "none", exc |-> "none", n |-> 0]
    ELSE [fault EXCEPT !.n = @ - gets]

\* @backoff.on_exception(backoff.expo, (RequestException, SSLError),
\* max_tries=5): the body is run again when one of these exceptions leaves
\* it, max_tries times at most
RECURSIVE on_exception(_, _, _)
on_exception(u, fault, tries) ==
    LET out == download_image_call(u, fault)
    IN  IF out.raised \in RequestExceptions /\ tries < max_tries
        THEN LET again == on_exception(u, FaultAfter(fault, out.gets), tries + 1)
             IN  [again EXCEPT !.gets = @ + out.gets]
        ELSE [raised |-> out.raised, result |-> out.result, file |-> out.file,
              gets |-> out.gets, tries |-> tries]

DlInit ==
    /\ PipelineIdle
    /\ FetchIdle
    /\ ChunkIdle
    /\ NodeIdle
    /\ ZipIdle
    /\ dl_tasks \in SeqsUpTo([url : {None, URL}, fault : Faults], MaxTasks)
    /\ dl_idx = 1
    /\ dl_pc = IF dl_tasks = <<>> THEN "done" ELSE "call"
    /\ dl_result = <<None, None>>
    /\ dl_file = [i \in 1..Len(dl_tasks) |-> "absent"]
    /\ dl_gets = [i \in 1..Len(dl_tasks) |-> 0]
    /\ dl_tries = [i \in 1..Len(dl_tasks) |-> 0]
    /\ progress = 0

\* download_image(url, path)
DlCall ==
    /\ dl_pc = "call"
    /\ LET out == on_exception(dl_tasks[dl_idx].url, dl_tasks[dl_idx].fault, 1)
       IN  /\ dl_result' = out.result
           /\ dl_file' = [dl_file EXCEPT ![dl_idx] = out.file]
           /\ dl_gets' = [dl_gets EXCEPT ![dl_idx] = out.gets]
           /\ dl_tries' = [dl_tries EXCEPT ![dl_idx] = out.tries]
           /\ dl_pc' = IF out.raised = "none" THEN "returned" ELSE "raised"
    /\ UNCHANGED <<dl_tasks, dl_idx, progress>>
    /\ UNCHANGED <<exceptDl, inputs, shared, mainpc, wvars, cvars, pool, hist>>

\* progress.update(1) and the caller's next task
DlProgress ==
    /\ dl_pc = "returned"
    /\ progress' = progress + 1
    /\ dl_idx' = dl_idx + 1
    /\ dl_pc' = IF dl_idx + 1 > Len(dl_tasks) THEN "done" ELSE "call"
    /\ UNCHANGED <<dl_tasks, dl_result, dl_file, dl_gets, dl_tries>>
    /\ UNCHANGED <<exceptDl, inputs, shared, mainpc, wvars, cvars, pool, hist>>

DlNext == DlCall \/ DlProgress

DlSpec == DlInit /\ [][DlNext]_vars

\* ------------------------------------------------------------------------
\* Properties

WorkersEnded == \A w \in Workers : wpc[w] \in {"done", "dead"}

\* worker w has taken up position i of its shard
Reached(w, i) == i \in 1..Len(files[w]) /\ (widx[w] > i \/ (widx[w] = i /\ wpc[w] # "next"))

\* worker w has gone on past position i of its shard
Passed(w, i) == i \in 1..Len(files[w]) /\ widx[w] > i

TasksOf(key) == {t \in enqueued : t.path[1] = key}

\* C1: when the coordinator stops on the sentinel (not on a timeout), every
\* enqueued Download Task with a non-null url has been handed to download_image.
C1_NoTaskLost ==
    (cpc = "done" /\ stopped = "sentinel")
        => \A t \in enqueued : t.url # None => t \in handed

\* C2: when the sentinel is dequeued while the wave holds k >= 1 tasks, those
\* tasks are dispatched before the coordinator stops.
C2_SentinelFlushesWave ==
    (cpc = "done" /\ IsSentinel(url))
        => \A i \in 1..Len(items_to_process) : items_to_process[i] \in handed

\* C3: the sentinel is put exactly once, only after every worker thread has
\* ended, and no Download Task is behind it in the queue.
C3_SentinelLast ==
    /\ eodPut <= 1
    /\ mainpc \in {"join_download", "done"} <=> eodPut = 1
    /\ eodPut >= 1 => WorkersEnded
    /\ \A i \in 1..Len(img_queue) : img_queue[i] = Sentinel => i = Len(img_queue)

C3_Witness ==
    /\ Len(img_queue) >= 2
    /\ img_queue[Len(img_queue)] = Sentinel
    /\ \E w \in Workers : wpc[w] = "dead"

\* C4: once every worker thread has ended, normally or by an exception, main
\* puts the sentinel, the coordinator stops and main's last join returns.
C4_RunTerminates == WorkersEnded ~> (mainpc = "done" /\ cpc = "done" /\ eodPut = 1)

C4_Witness ==
    /\ mainpc = "done"
    /\ \E w \in Workers : wpc[w] = "dead"
    /\ \E w \in Workers : wpc[w] = "done"
    /\ handed # {}

\* C5: the coordinator stops on a timeout only when no task was dequeued for
\* the whole timeout, and the tasks it had dequeued are not dropped.
C5_IdleTimeout ==
    stopped = "timeout"
        => /\ now - batch_start_time >= timeout
           /\ \A i \in 1..Len(items_to_process) : items_to_process[i] \in handed

\* C6: the transfers the coordinator has dispatched and that have not finished
\* never number more than the wave size.
C6_WaveBound == Len(pending) + Cardinality(running) <= batch

C6_Witness == batch >= 2 /\ Cardinality(running) = batch

\* C7: the coordinator takes nothing from the queue while a transfer of an
\* earlier wave is still submitted or running.
C7_WavesDoNotOverlap ==
    [][Len(img_queue') < Len(img_queue) => (pending = <<>> /\ running = {})]_vars

C7_Witness ==
    /\ waveNo >= 1
    /\ handed # {}
    /\ items_to_process # <<>>
    /\ items_to_process[1] \notin handed

\* C8: a worker whose manifest exhausts the 429 retries logs the error and
\* goes on with the rest of its shard.
RateLimitExhausted(m) == m.json = "valid" /\ fetch_node_images(m, m.nodes).raised

C8_RateLimitSkipsManifest ==
    \A w \in Workers : \A i \in 1..Len(files[w]) :
        (RateLimitExhausted(files[w][i][2]) /\ Reached(w, i))
            => /\ wpc[w] # "dead"
               /\ (Passed(w, i) => logCalls[files[w][i][1]] = 1)

\* C9: a manifest that lacks a required key is skipped and logged, the worker
\* goes on, and no task is enqueued for it.
LacksRequiredKey(m) == m.json \in {"no_thumbnailUrl", "no_document"}

C9_MissingKeySkipsManifest ==
    \A w \in Workers : \A i \in 1..Len(files[w]) :
        (LacksRequiredKey(files[w][i][2]) /\ Reached(w, i))
            => /\ wpc[w] # "dead"
               /\ TasksOf(files[w][i][1]) = {}
               /\ (Passed(w, i) => logCalls[files[w][i][1]] = 1)

\* C10: for a manifest that is not valid JSON log_error appends exactly one
\* entry, no download is attempted or enqueued for it, and the worker goes on
\* with its shard; when it is the only such file the log holds that one entry.
InvalidJson(m) == m.json = "invalid"

C10_InvalidJsonSkipped ==
    \A w \in Workers : \A i \in 1..Len(files[w]) :
        LET key == files[w][i][1]
        IN  InvalidJson(files[w][i][2])
            => /\ logCalls[key] = (IF Passed(w, i) THEN 1 ELSE 0)
               /\ TasksOf(key) = {}
               /\ ThumbnailPath(key) \notin direct
               /\ ~(widx[w] = i /\ wpc[w] \in {"dead", "done"})
               /\ (wpc[w] = "done" => Passed(w, i))
               /\ (Passed(w, i)
                     /\ Cardinality({j \in 1..Len(json_files) : InvalidJson(json_files[j])}) = 1)
                        => errLog = <<key>>

C10_Witness ==
    \E w \in Workers : \E i \in 1..Len(files[w]) :
        /\ InvalidJson(files[w][i][2])
        /\ i < Len(files[w])
        /\ TasksOf(files[w][i + 1][1]) # {}
        /\ errLog = <<files[w][i][1]>>

\* C11: a batch whose first k <= max_retry calls are answered 429 and whose
\* next call succeeds is requested exactly k + 1 times by fetch_images_chunk,
\* with one sleep of the retry-after value (10 without the header) before each
\* retry, every retry being for the same batch, and the mapping of the
\* successful response is returned.
C11_RetryThenSuccess ==
    \A i \in 1..Len(ids_chunks) :
        /\ Len(fslept[i]) = fretry[i]
        /\ fcalls[i] - 1 <= fretry[i] /\ fretry[i] <= fcalls[i]
        /\ \A j \in 1..Len(fslept[i]) :
               fslept[i][j] = IF retry_after = None THEN 10 ELSE 15
        /\ k429[i] <= max_retry => fpc[i] # "raised"
        /\ (fpc[i] = "returned" /\ k429[i] <= max_retry)
              => /\ fcalls[i] = k429[i] + 1
                 /\ fretry[i] = k429[i]
        /\ (fpc[i] = "returned" /\ answer = "ok" /\ fsent[i] = {})
              => chunk_result[i] = [id \in Range(ids_chunks[i]) |-> URL]
        /\ Len(ids_chunks) = 1 => fsent[i] = {}

C11_Witness ==
    \E i \in 1..Len(ids_chunks) :
        /\ fpc[i] = "returned"
        /\ k429[i] = max_retry
        /\ fcalls[i] = 4
        /\ fslept[i] = <<15, 15, 15>>
        /\ answer = "ok"

\* C12: a batch whose every call is answered 429 is requested max_retry + 1 = 4
\* times and no more; fetch_node_images then ends with the ValueError and
\* returns no mapping, whatever the other batches resolved.
C12_ExhaustionIsFatal ==
    /\ \A i \in 1..Len(ids_chunks) :
          k429[i] > max_retry
            => /\ fcalls[i] <= max_retry + 1
               /\ fpc[i] # "returned"
               /\ fpc[i] = "raised" => fcalls[i] = max_retry + 1
    /\ (\E i \in 1..Len(ids_chunks) : k429[i] > max_retry)
          => /\ npc # "returned"
             /\ image_urls = <<>>
             /\ npc \in {"wave", "map", "raised"}

C12_Witness ==
    /\ npc = "raised"
    /\ Len(ids_chunks) >= 2
    /\ \E i \in 1..Len(ids_chunks) : fpc[i] = "raised" /\ fcalls[i] = 4
    /\ \E j \in 1..Len(ids_chunks) : fpc[j] = "returned" /\ chunk_result[j] # <<>>

\* C13: every batch chunk yields is within the ceiling:
\* len(url) + len(",".join(batch)) + len(urlencode(params)) <= max_len, also
\* when one id alone is too long to fit.
C13_BatchWithinCeiling ==
    \A b \in 1..Len(yielded) : get_chunk_len(yielded[b]) <= max_len

\* C14: the batches chunk yields, concatenated in order, are the input id
\* list: nothing dropped, duplicated or reordered.
C14_BatchesConcatToInput ==
    /\ Concat(yielded) \o (IF chunk_pc = "done" THEN <<>> ELSE cur_chunk)
          = SubSeq(chunk_ids, 1, cpos)
    /\ chunk_pc = "done" => Concat(yielded) = chunk_ids

C14_Witness ==
    /\ chunk_pc = "done"
    /\ Len(chunk_ids) = 3
    /\ Len(yielded) = 2
    /\ Len(yielded[1]) = 2
    /\ Len(yielded[2]) = 1

\* number of ancestor hops of an element from its canvas
HopsFromCanvas(id) == Len(id) - 1

\* all nodes of the document, in document order
AllIds == ExtractEach(data, 0, NoDepth)

\* C15: get_node_ids returns no id of an element whose depth (ancestor hops
\* from its top-level container) is >= the depth limit, and the empty list
\* for depth 0 with skip_canvas.
C15_NoIdAtLimit ==
    (gpc = "returned" /\ node_ids.raised = "none")
        => /\ depth # NoDepth
                => \A i \in 1..Len(node_ids.ids) : HopsFromCanvas(node_ids.ids[i]) < depth
           /\ (depth = 0 /\ skip_canvas) => node_ids.ids = <<>>

\* hops from the node at which the walk starts: the canvas, or its direct
\* child when skip_canvas is set
WalkDepth(id) == IF skip_canvas THEN Len(id) - 2 ELSE Len(id) - 1

\* C15 as amended: get_node_ids returns no id of an element whose depth
\* counted from where the walk starts (the canvas, or with skip_canvas the
\* canvas's direct child) is >= the depth limit, and the empty list for depth
\* 0 with skip_canvas.
C15_NoIdAtWalkLimit ==
    (gpc = "returned" /\ node_ids.raised = "none")
        => /\ depth # NoDepth
                => \A i \in 1..Len(node_ids.ids) : WalkDepth(node_ids.ids[i]) < depth
           /\ (depth = 0 /\ skip_canvas) => node_ids.ids = <<>>

C15_Witness ==
    /\ gpc = "returned"
    /\ skip_canvas
    /\ depth = 2
    /\ Len(data) = 2
    /\ \E i \in 1..Len(node_ids.ids) : WalkDepth(node_ids.ids[i]) = 1
    /\ \E j \in 1..Len(AllIds) : WalkDepth(AllIds[j]) = 2

\* C16: with depth 0 and skip_canvas disabled get_node_ids returns the ids of
\* the canvases, in document order, and nothing else.
C16_DepthZeroGivesCanvases ==
    (gpc = "returned" /\ depth = 0 /\ ~skip_canvas)
        => node_ids = [raised |-> "none", ids |-> [c \in 1..Len(data) |-> data[c].id]]

\* C17: chunked_zips returns exactly n shards, pairwise disjoint, whose
\* concatenation in shard order is the input; the first n - 1 hold
\* floor(len / n) pairs, the last holds floor(len / n) plus the remainder; every
\* pair is a file key with its own manifest path.
C17_ShardsPartitionInput ==
    zpc = "returned"
        => /\ Len(zips) = zip_n
           /\ \A i \in 1..(zip_n - 1) : Len(zips[i]) = Len(zip_a) \div zip_n
           /\ Len(zips[zip_n]) = (Len(zip_a) \div zip_n) + (Len(zip_a) % zip_n)
           /\ Concat(zips) = [k \in 1..Len(zip_a) |-> <<k, zip_b[k]>>]
           /\ \A i, j \in 1..zip_n : i # j => Range(zips[i]) \cap Range(zips[j]) = {}

C17_Witness ==
    /\ zpc = "returned"
    /\ zip_n = 3
    /\ Len(zip_a) = 4
    /\ Len(zips[3]) = 2
    /\ zip_b[1] # zip_b[2]

\* the manifest behind a file key
ManifestOf(key) == json_files[key]

\* C18: every Download Task in the queue, fill or bake, has a destination
\* directory that exists and a destination file that does not: files are only
\* ever added, so the file did not exist when the task was put either.
C18_TaskDestinationFree ==
    \A i \in 1..Len(img_queue) :
        LET t == img_queue[i]
        IN  t # Sentinel
              => /\ <<t.path[1], t.path[2]>> \in dirs
                 /\ t.path[3] \notin ListDir(t.path[1], ManifestOf(t.path[1]), t.path[2])

C18_Witness ==
    /\ \E i \in 1..Len(img_queue) : img_queue[i] # Sentinel /\ img_queue[i].path[2] = "images"
    /\ \E i \in 1..Len(img_queue) : img_queue[i] # Sentinel /\ img_queue[i].path[2] = "bakes"
    /\ \A k \in 1..Len(json_files) : ManifestOf(k).bakesDir # {}

\* every destination file of manifest m is there before the run
AllPresent(m) ==
    /\ m.json = "valid"
    /\ m.thumb
    /\ Range(m.fills) \subseteq m.imagesDir
    /\ Range(m.nodes) \subseteq m.bakesDir

\* C19: when every destination file (thumbnail, fills, bakes) of every
\* manifest already exists, the run enqueues no task and performs no transfer.
C19_SecondRunDownloadsNothing ==
    (\A k \in 1..Len(json_files) : AllPresent(ManifestOf(k)))
        => /\ enqueued = {}
           /\ handed = {}
           /\ direct = {}
           /\ written = {}
           /\ img_queue \in {<<>>, <<Sentinel>>}

C19_Witness ==
    /\ Len(json_files) = 2
    /\ \A k \in 1..Len(json_files) : AllPresent(ManifestOf(k))
    /\ mainpc = "done"
    /\ \A w \in Workers : wpc[w] = "done"

\* C20: download_image never raises to its caller: whatever fails (the
\* request, the status check, the file write) it returns (None, None), and the
\* caller goes on with its remaining tasks.
C20_DownloadNeverRaises ==
    /\ dl_pc # "raised"
    /\ (dl_pc = "returned"
          /\ dl_tasks[dl_idx].fault.at # "none"
          /\ ~(dl_tasks[dl_idx].fault.at = "get" /\ dl_tasks[dl_idx].fault.n <= retries))
          => dl_result = <<None, None>>
    /\ dl_pc = "done" => progress = Len(dl_tasks)

C20_Witness ==
    /\ dl_pc = "done"
    /\ Len(dl_tasks) = 2
    /\ dl_tasks[1].url = URL
    /\ dl_tasks[1].fault.at = "write"
    /\ dl_file[1] = "partial"
    /\ dl_file[2] = "complete"
    /\ progress = 2


\* C21: under every interleaving of the batch threads of a wave, every
\* request sent by fetch_images_chunk carries exactly the ids of the batch
\* it was called with (params is written by one thread only), so that when
\* every request succeeds each input id is requested and resolved.
C21_RequestCarriesOwnIds ==
    /\ \A i \in 1..Len(ids_chunks) : fsent[i] = {}
    /\ (npc = "returned" /\ answer = "ok") =>
          DOMAIN image_urls = UNION {Range(ids_chunks[i]) : i \in 1..Len(ids_chunks)}


\* the calls of the caller that have ended
CallsMade == {i \in 1..Len(dl_tasks) : i < dl_idx \/ (i = dl_idx /\ dl_pc # "call")}

\* C22: when the GET of a transfer fails with a network or TLS error,
\* download_image attempts the transfer again, up to max_tries = 5 attempts
\* in total, before the failure is reported: a GET that fails n times in a
\* row is attempted min(n + 1, 5) times, and the call fails only when all 5
\* attempts failed.
C22_FiveAttempts ==
    \A i \in CallsMade :
        (dl_tasks[i].url # None /\ dl_tasks[i].fault.at = "get") =>
            /\ dl_gets[i] = IF dl_tasks[i].fault.n + 1 < max_tries
                            THEN dl_tasks[i].fault.n + 1 ELSE max_tries
            /\ dl_file[i] = "complete" <=> dl_tasks[i].fault.n < max_tries


\* C23: every download a Manifest Worker needs, the missing thumbnail
\* included, goes through the Download Queue to the Transfer Executor pool:
\* a worker never calls download_image itself, and every file written was
\* written by a transfer of the pool.
C23_WorkerNeverTransfers ==
    /\ direct = {}
    /\ \A dest \in written : \E t \in handed : t.path = dest


\* C24: every batch chunk yields is non-empty, except the single batch of an
\* empty id list; an id too long to fit by itself causes no empty batch.
C24_NoEmptyBatch ==
    \A b \in 1..Len(yielded) : yielded[b] = <<>> => chunk_ids = <<>>


\* the wave a batch belongs to, and the batches whose thread is running
WaveOf(i) == (i - 1) \div max_concurrent_requests
InFlight == {i \in 1..Len(ids_chunks) : fpc[i] \in {"set_params", "request"}}

\* C25: fetch_node_images processes the batches in waves of at most
\* max_concurrent_requests = 10: at most 10 batch requests are in flight, no
\* request of a wave starts before every request of the wave before it
\* (retries included) has returned, a pause of delay_between_batches
\* separates consecutive waves and no pause follows the last wave.
C25_WavesOfTen ==
    /\ Cardinality(InFlight) <= 10
    /\ \A i, j \in 1..Len(ids_chunks) :
          (WaveOf(i) < WaveOf(j) /\ fpc[j] # "idle")
              => (fpc[i] = "returned" /\ fcalls[i] = k429[i] + 1)
    /\ \A j \in 1..Len(ids_chunks) :
          fpc[j] # "idle" => pauses >= WaveOf(j) * delay_between_batches
    /\ npc = "returned" => pauses = (num_batches - 1) * delay_between_batches

C25_Witness ==
    /\ npc = "returned"
    /\ Len(ids_chunks) = 11
    /\ k429[1] = 1
    /\ fslept[1] = <<delay_between_429>>
    /\ batch_idx = 1
    /\ pauses = delay_between_batches
    /\ \A i \in 1..11 : fpc[i] = "returned"


\* C26: every wave the coordinator hands to the Transfer Executor pool holds
\* exactly batch tasks, a partial wave is never handed over, and so the
\* number of transfers of the pool is a multiple of batch whenever none is
\* waiting to start.
C26_FullWavesOnly ==
    LET transfers == Cardinality(handed)
    IN  /\ cpc = "join" => Len(items_to_process) = batch
        /\ transfers + Len(pending) = waveNo * batch
        /\ pending = <<>> => transfers % batch = 0

C26_Witness ==
    /\ batch = 2
    /\ cpc = "done"
    /\ waveNo = 1
    /\ Cardinality(handed) = 2
    /\ pending = <<>>
    /\ running = {}

================================================================
